---- MODULE Spec2Model ----
(***************************************************************************)
(* Risk scoring engine of BetterAuth: RiskScoringContext (a Mutex around   *)
(* the per-user login history), analyze_login_risk, record_login and the   *)
(* login route that integrates them (docs/endpoints.md, "Risk Scoring      *)
(* System"; docs/performance_optimizations.md).                            *)
(*                                                                         *)
(* Units.  A timestamp is a whole number of hours.  A GeoLocation is a     *)
(* point on the equator, given by its distance in km east of (0,0), so the *)
(* great-circle distance of two locations is the absolute difference.      *)
(* Option<T> is a sequence: <<>> is None and <<x>> is Some(x).             *)
(* ip_address and user_agent of a LoginRecord are never read by the        *)
(* engine and are left out of the record.                                  *)
(***************************************************************************)
EXTENDS Integers, Sequences, FiniteSets, TLC

\* ---------------------------------------------------------------- bounds
MaxTime == 1
MaxHistLen == 2
MaxLogins == 2
MaxFailures == 2

\* ---------------------------------------------------------------- domains
Users == {"u1", "u2"}
Procs == {"p1", "p2"}
Devices == {"d1", "d2"}
Positions == {0, 1040}
Times == 0..MaxTime

None == <<>>
Some(x) == <<x>>
Locations == {None} \cup {Some(x) : x \in Positions}

LoginRecords ==
    [timestamp : Times, location : Locations, device_id : Devices, success : BOOLEAN]

\* The users whose account has MFA enabled (User.mfa_enabled).
MfaUsers == {"u1"}
mfa_enabled(u) == u \in MfaUsers

\* ---------------------------------------------------------------- configuration
\* RISK_WEIGHT_* and RISK_THRESHOLD_* are named by the engine and set
\* elsewhere; the first configuration is the documented default.
DefaultConfig ==
    [new_device |-> 20, new_location |-> 15, impossible_travel |-> 30, odd_time |-> 15,
     mfa |-> 30, block |-> 70]
HeavyConfig ==
    [new_device |-> 40, new_location |-> 30, impossible_travel |-> 30, odd_time |-> 15,
     mfa |-> 30, block |-> 70]
FlatConfig ==
    [new_device |-> 0, new_location |-> 15, impossible_travel |-> 30, odd_time |-> 60,
     mfa |-> 45, block |-> 45]
Configs == {DefaultConfig, HeavyConfig, FlatConfig}

VARIABLES
    config,         \* the weights and thresholds the engine was built with
    now,            \* chrono::Utc::now(), in hours
    login_history,  \* RiskScoringState.login_history: HashMap<Uuid, Vec<LoginRecord>>
    mutex,          \* RiskScoringContext.state: the holder of the Mutex, or None
    pc,             \* each request handler's position
    user,           \* each handler's user.id
    login_record,   \* each handler's login_record / login_info
    push_len,       \* Vec::push: the length read before the element is written
    risk_analysis,  \* each handler's RiskAnalysisResult, or None
    response,       \* the last response each handler sent, or None
    returned,       \* per user, the records whose record_login call has returned
    started,        \* number of requests accepted so far
    par_done,       \* the parallel analysis: the analyzers that finished, in that order
    failed_attempts,\* RiskScoringState.failed_attempts: HashMap<String, FailedAttempts>
    client,         \* the browser's login flow: its step and the response it handles
    fail_call       \* the calls of record_failed_attempt / get_failed_attempts in progress

vars == <<config, now, login_history, mutex, pc, user, login_record, push_len,
          risk_analysis, response, returned, started, par_done, failed_attempts,
          client, fail_call>>

RISK_WEIGHT_NEW_DEVICE == config.new_device
RISK_WEIGHT_NEW_LOCATION == config.new_location
RISK_WEIGHT_IMPOSSIBLE_TRAVEL == config.impossible_travel
RISK_WEIGHT_ODD_TIME == config.odd_time
RISK_THRESHOLD_MFA == config.mfa
RISK_THRESHOLD_BLOCK == config.block

\* ---------------------------------------------------------------- helpers
Abs(x) == IF x < 0 THEN -x ELSE x
Min(a, b) == IF a < b THEN a ELSE b

\* Great-circle distance in km of two locations (points on the equator).
calculate_distance(a, b) == Abs(a - b)

HoursPerDay == 24
hour(ts) == ts % HoursPerDay

\* The hours of the day at which the user logged in successfully.
analyze_user_normal_hours(history) ==
    {hour(history[i].timestamp) : i \in {j \in DOMAIN history : history[j].success}}

is_normal_time(ts, user_normal_hours) == hour(ts) \in user_normal_hours

\* ---------------------------------------------------------------- analyze_login_risk
\* As known_device, looking at the last record only.
known_device_last_only(history, login_info) ==
    history /= <<>> /\ history[Len(history)].device_id = login_info.device_id

\* As known_device, looking at the successful records only.
known_device_successful_only(history, login_info) ==
    \E i \in DOMAIN history :
        history[i].success /\ history[i].device_id = login_info.device_id

\* history.iter().any(|r| r.device_id == login_info.device_id)
known_device(history, login_info) ==
    \E i \in DOMAIN history : history[i].device_id = login_info.device_id

\* As within_50km, with `<=` for `<`.
within_50km_inclusive(loc, current_location) ==
    calculate_distance(loc, current_location) <= 50

\* calculate_distance(loc, current_location) < 50.0
within_50km(loc, current_location) == calculate_distance(loc, current_location) < 50

\* history.iter().filter_map(|r| r.location.as_ref()).any(within 50 km)
known_location(history, current_location) ==
    \E i \in DOMAIN history :
        /\ history[i].location /= None
        /\ within_50km(history[i].location[1], current_location)

\* As latest_login, taking the last geolocated record of the vector.
latest_login_by_position(history) ==
    LET geo == {i \in DOMAIN history : history[i].location /= None}
    IN  IF geo = {} THEN 0 ELSE CHOOSE i \in geo : \A j \in geo : j <= i

\* filter_map(location).max_by_key(|(ts, _)| ts): the index of the geolocated
\* record with the greatest timestamp, the last one of them on a tie; 0 if none.
latest_login(history) ==
    LET geo == {i \in DOMAIN history : history[i].location /= None}
    IN  IF geo = {} THEN 0
        ELSE CHOOSE i \in geo :
                \A j \in geo :
                    \/ history[j].timestamp < history[i].timestamp
                    \/ history[j].timestamp = history[i].timestamp /\ j <= i

\* As too_fast, without the hours_diff > 0.0 test (the quotient is infinite for
\* no elapsed time over a positive distance).
too_fast_unguarded(hours_diff, distance) ==
    \/ hours_diff = 0 /\ distance > 0
    \/ hours_diff > 0 /\ distance > 1000 * hours_diff

\* hours_diff > 0.0 && distance / hours_diff > 1000.0
too_fast(hours_diff, distance) == hours_diff > 0 /\ distance > 1000 * hours_diff

impossible_travel(history, login_info) ==
    /\ login_info.location /= None
    /\ latest_login(history) /= 0
    /\ LET prev == history[latest_login(history)]
       IN  too_fast(login_info.timestamp - prev.timestamp,
                    calculate_distance(prev.location[1], login_info.location[1]))

\* As new_location, counting an attempt without a location as a new location.
new_location_penalize_missing(history, login_info) ==
    \/ login_info.location = None
    \/ ~known_location(history, login_info.location[1])

new_location(history, login_info) ==
    /\ login_info.location /= None
    /\ ~known_location(history, login_info.location[1])

odd_time(history, login_info) ==
    ~is_normal_time(login_info.timestamp, analyze_user_normal_hours(history))

RiskFactor(n, d, w) == [name |-> n, description |-> d, weight |-> w]

\* As has_baseline, without the is_empty test.
has_baseline_no_empty_test(history) == history /= None

\* if let Some(history) = history { if !history.is_empty() { ... } }
has_baseline(history) == history /= None /\ history[1] /= <<>>

\* As risk_factors, with the impossible travel check pushing a second
\* new_location factor.
risk_factors_duplicate(history, login_info) ==
    IF ~has_baseline(history) THEN <<>>
    ELSE LET h == history[1]
         IN  (IF ~known_device(h, login_info)
                THEN <<RiskFactor("new_device", "Login from a new device",
                                  RISK_WEIGHT_NEW_DEVICE)>>
                ELSE <<>>)
          \o (IF new_location(h, login_info)
                THEN <<RiskFactor("new_location", "Login from a new location",
                                  RISK_WEIGHT_NEW_LOCATION)>>
                ELSE <<>>)
          \o (IF impossible_travel(h, login_info)
                THEN <<RiskFactor("new_location", "Impossible travel detected",
                                  RISK_WEIGHT_IMPOSSIBLE_TRAVEL)>>
                ELSE <<>>)
          \o (IF odd_time(h, login_info)
                THEN <<RiskFactor("odd_time", "Login at unusual time",
                                  RISK_WEIGHT_ODD_TIME)>>
                ELSE <<>>)

\* risk_factors after the four checks, in the order they are pushed.
risk_factors(history, login_info) ==
    IF ~has_baseline(history) THEN <<>>
    ELSE LET h == history[1]
         IN  (IF ~known_device(h, login_info)
                THEN <<RiskFactor("new_device", "Login from a new device",
                                  RISK_WEIGHT_NEW_DEVICE)>>
                ELSE <<>>)
          \o (IF new_location(h, login_info)
                THEN <<RiskFactor("new_location", "Login from a new location",
                                  RISK_WEIGHT_NEW_LOCATION)>>
                ELSE <<>>)
          \o (IF impossible_travel(h, login_info)
                THEN <<RiskFactor("impossible_travel", "Impossible travel detected",
                                  RISK_WEIGHT_IMPOSSIBLE_TRAVEL)>>
                ELSE <<>>)
          \o (IF odd_time(h, login_info)
                THEN <<RiskFactor("odd_time", "Login at unusual time",
                                  RISK_WEIGHT_ODD_TIME)>>
                ELSE <<>>)

\* As total_weight, with the odd_time weight added outside its `if`.
total_weight_unlisted(history, login_info) ==
    IF history = None \/ history[1] = <<>> THEN 0
    ELSE LET h == history[1]
         IN  (IF ~known_device(h, login_info) THEN RISK_WEIGHT_NEW_DEVICE ELSE 0)
           + (IF new_location(h, login_info) THEN RISK_WEIGHT_NEW_LOCATION ELSE 0)
           + (IF impossible_travel(h, login_info) THEN RISK_WEIGHT_IMPOSSIBLE_TRAVEL ELSE 0)
           + RISK_WEIGHT_ODD_TIME

\* total_weight after the four checks: each `total_weight += ...`.
total_weight(history, login_info) ==
    IF ~has_baseline(history) THEN 0
    ELSE LET h == history[1]
         IN  (IF ~known_device(h, login_info) THEN RISK_WEIGHT_NEW_DEVICE ELSE 0)
           + (IF new_location(h, login_info) THEN RISK_WEIGHT_NEW_LOCATION ELSE 0)
           + (IF impossible_travel(h, login_info) THEN RISK_WEIGHT_IMPOSSIBLE_TRAVEL ELSE 0)
           + (IF odd_time(h, login_info) THEN RISK_WEIGHT_ODD_TIME ELSE 0)

\* As score_of, without the cap.
score_of_uncapped(factors, weight) == IF factors = <<>> THEN 0 ELSE weight

\* let score = if risk_factors.is_empty() { 0 } else { min(100, total_weight) }
score_of(factors, weight) == IF factors = <<>> THEN 0 ELSE Min(100, weight)

\* As action_of, with `>` for `>=`.
action_of_strict(score) ==
    IF score > RISK_THRESHOLD_BLOCK THEN "Block"
    ELSE IF score > RISK_THRESHOLD_MFA THEN "RequireMfa"
    ELSE "Allow"

\* As action_of, with `==` for the second `>=`.
action_of_exact_mfa(score) ==
    IF score >= RISK_THRESHOLD_BLOCK THEN "Block"
    ELSE IF score = RISK_THRESHOLD_MFA THEN "RequireMfa"
    ELSE "Allow"

\* Block / RequireMfa / Allow by the two thresholds.
action_of(score) ==
    IF score >= RISK_THRESHOLD_BLOCK THEN "Block"
    ELSE IF score >= RISK_THRESHOLD_MFA THEN "RequireMfa"
    ELSE "Allow"

\* state.login_history.get(user_id)
history_get(map, user_id) == IF user_id \in DOMAIN map THEN Some(map[user_id]) ELSE None

analyze_login_risk(map, user_id, login_info) ==
    LET history == history_get(map, user_id)
        factors == risk_factors(history, login_info)
        score   == score_of(factors, total_weight(history, login_info))
    IN  [score |-> score, factors |-> factors, action |-> action_of(score)]

\* ---------------------------------------------------------------- RiskScoringContext
\* As MutexFree, for a lock that never makes a caller wait.
MutexFree_no_wait(m) == TRUE

\* self.state.lock(): granted when no one holds the Mutex.
MutexFree(m) == m = None

\* state.login_history.entry(*user_id).or_insert_with(Vec::new)
or_insert_with(map, user_id) ==
    IF user_id \in DOMAIN map THEN map
    ELSE [u \in DOMAIN map \cup {user_id} |-> IF u = user_id THEN <<>> ELSE map[u]]

\* As vec_push, writing the slot at len - 1 (the last element is overwritten).
vec_push_overwrite(history, len, record) ==
    SubSeq(history, 1, Min(len, Len(history)) - 1) \o <<record>>

\* As vec_push, inserting the record at its place in timestamp order.
vec_push_sorted(history, len, record) ==
    LET h == SubSeq(history, 1, Min(len, Len(history)))
        k == Cardinality({i \in DOMAIN h : h[i].timestamp <= record.timestamp})
    IN  SubSeq(h, 1, k) \o <<record>> \o SubSeq(h, k + 1, Len(h))

\* history.push(record): the element goes to the slot after the length read,
\* and the length becomes that length plus one.
vec_push(history, len, record) ==
    SubSeq(history, 1, Min(len, Len(history))) \o <<record>>

\* The history of a user as a reader finds it: empty when the user is absent.
history_of(u) == IF u \in DOMAIN login_history THEN login_history[u] ELSE <<>>

\* ---------------------------------------------------------------- state
Idle == [p \in Procs |-> "idle"]

InitLocals ==
    /\ mutex = None
    /\ pc = Idle
    /\ user = [p \in Procs |-> "u1"]
    /\ login_record = [p \in Procs |-> None]
    /\ push_len = [p \in Procs |-> 0]
    /\ risk_analysis = [p \in Procs |-> None]
    /\ response = [p \in Procs |-> None]
    /\ returned = [u \in Users |-> <<>>]
    /\ started = 0
    /\ par_done = <<>>
    /\ failed_attempts = <<>>
    /\ client = [flow |-> "setupAuthFlow", step |-> "form", response |-> None,
                 authToken |-> None, requests |-> {}, used |-> {}]
    /\ fail_call = [key |-> [p \in Procs |-> None], count |-> [p \in Procs |-> 0],
                    result |-> [p \in Procs |-> None], written |-> [k \in Users |-> 0]]

\* RiskScoringContext::new(): no history for any user.
Init ==
    /\ InitLocals
    /\ config = DefaultConfig
    /\ now = 0
    /\ login_history = <<>>

\* ---------------------------------------------------------------- the login route
\* POST /api/auth/login, after the credentials were verified: the handler
\* builds login_record with timestamp = Utc::now() and success = true.
LoginBegin(p, u, device, loc) ==
    /\ pc[p] = "idle"
    /\ started < MaxLogins
    /\ started' = started + 1
    /\ pc' = [pc EXCEPT ![p] = "should_block"]
    /\ user' = [user EXCEPT ![p] = u]
    /\ login_record' = [login_record EXCEPT ![p] =
          Some([timestamp |-> now, location |-> loc, device_id |-> device,
                success |-> TRUE])]
    /\ risk_analysis' = [risk_analysis EXCEPT ![p] = None]
    /\ response' = [response EXCEPT ![p] = None]
    /\ UNCHANGED <<fail_call, par_done, failed_attempts, client, config, now, login_history, mutex, push_len, returned>>

\* risk_ctx.should_block_login(&user.id, &login_record): the analysis runs
\* under the Mutex, which is released when analyze_login_risk returns.
ShouldBlockLogin(p) ==
    /\ pc[p] = "should_block"
    /\ MutexFree(mutex)
    /\ risk_analysis' = [risk_analysis EXCEPT ![p] =
          Some(analyze_login_risk(login_history, user[p], login_record[p][1]))]
    /\ pc' = [pc EXCEPT ![p] = "record"]
    /\ UNCHANGED <<fail_call, par_done, failed_attempts, client, config, now, login_history, mutex, user, login_record, push_len,
                   response, returned, started>>

block_login(p) == risk_analysis[p][1].action = "Block"

\* As RecordLock, recording every attempt as a success.
RecordLock_success_always(p) ==
    /\ pc[p] = "record"
    /\ MutexFree(mutex)
    /\ mutex' = Some(p)
    /\ pc' = [pc EXCEPT ![p] = "entry"]
    /\ UNCHANGED <<fail_call, par_done, failed_attempts, client, config, now, login_history, user,
                   login_record, push_len, risk_analysis, response, returned, started>>

\* if block_login { failed_record.success = false; record_login(failed_record) }
\* else { record_login(login_record) }: the call takes the Mutex.
RecordLock(p) ==
    /\ pc[p] = "record"
    /\ MutexFree(mutex)
    /\ mutex' = Some(p)
    /\ login_record' = [login_record EXCEPT ![p] =
          Some([login_record[p][1] EXCEPT !.success = ~block_login(p)])]
    /\ pc' = [pc EXCEPT ![p] = "entry"]
    /\ UNCHANGED <<fail_call, par_done, failed_attempts, client, config, now, login_history, user, push_len, risk_analysis,
                   response, returned, started>>

\* As RecordEntry, with the guard dropped before the push.
RecordEntry_unlocking(p) ==
    /\ pc[p] = "entry"
    /\ login_history' = or_insert_with(login_history, user[p])
    /\ push_len' = [push_len EXCEPT ![p] = Len(login_history'[user[p]])]
    /\ pc' = [pc EXCEPT ![p] = "push"]
    /\ mutex' = None
    /\ UNCHANGED <<fail_call, par_done, failed_attempts, client, config, now, user, login_record, risk_analysis, response,
                   returned, started>>

\* let history = state.login_history.entry(*user_id).or_insert_with(Vec::new);
\* push begins by reading the length of the vector.
RecordEntry(p) ==
    /\ pc[p] = "entry"
    /\ login_history' = or_insert_with(login_history, user[p])
    /\ push_len' = [push_len EXCEPT ![p] = Len(login_history'[user[p]])]
    /\ pc' = [pc EXCEPT ![p] = "push"]
    /\ UNCHANGED <<fail_call, par_done, failed_attempts, client, config, now, mutex, user, login_record, risk_analysis, response,
                   returned, started>>

\* As RecordPush, for a store that keeps one vector for all users.
RecordPush_every_user(p) ==
    /\ pc[p] = "push"
    /\ login_history' = [u \in DOMAIN login_history |->
          vec_push(login_history[u], Len(login_history[u]), login_record[p][1])]
    /\ pc' = [pc EXCEPT ![p] = "unlock"]
    /\ UNCHANGED <<fail_call, par_done, failed_attempts, client, config, now, mutex, user,
                   login_record, push_len, risk_analysis, response, returned, started>>

\* history.push(record)
RecordPush(p) ==
    /\ pc[p] = "push"
    /\ login_history' = [login_history EXCEPT ![user[p]] =
          vec_push(@, push_len[p], login_record[p][1])]
    /\ pc' = [pc EXCEPT ![p] = "unlock"]
    /\ UNCHANGED <<fail_call, par_done, failed_attempts, client, config, now, mutex, user, login_record, push_len, risk_analysis,
                   response, returned, started>>

\* let require_mfa = risk_analysis.action == RiskAction::RequireMfa || user.mfa_enabled;
require_mfa(p) == risk_analysis[p][1].action = "RequireMfa" \/ mfa_enabled(user[p])

\* Forbidden LOGIN_BLOCKED, or Ok with risk_analysis: Some(risk_analysis).
login_response(p) ==
    IF block_login(p)
      THEN [status |-> "error", code |-> "LOGIN_BLOCKED", user |-> user[p],
            require_mfa |-> FALSE, risk_analysis |-> None, tokens |-> FALSE]
      ELSE [status |-> "success", code |-> "OK", user |-> user[p],
            require_mfa |-> require_mfa(p), risk_analysis |-> risk_analysis[p],
            tokens |-> TRUE]

\* record_login returns, which drops the guard, and the handler answers the
\* request: nothing shared is read or written after the return.
RecordReturn(p) ==
    /\ pc[p] = "unlock"
    /\ mutex' = IF mutex = Some(p) THEN None ELSE mutex
    /\ returned' = [returned EXCEPT ![user[p]] = Append(@, login_record[p][1])]
    /\ response' = [response EXCEPT ![p] = Some(login_response(p))]
    /\ pc' = [pc EXCEPT ![p] = "idle"]
    /\ login_record' = [login_record EXCEPT ![p] = None]
    /\ risk_analysis' = [risk_analysis EXCEPT ![p] = None]
    /\ push_len' = [push_len EXCEPT ![p] = 0]
    /\ user' = [user EXCEPT ![p] = "u1"]
    /\ UNCHANGED <<fail_call, par_done, failed_attempts, client, config, now, login_history, started>>

\* Time passes.
Tick ==
    /\ now < MaxTime
    /\ now' = now + 1
    /\ UNCHANGED <<fail_call, par_done, failed_attempts, client, config, login_history, mutex, pc, user, login_record, push_len,
                   risk_analysis, response, returned, started>>

Next ==
    \/ \E p \in Procs, u \in Users, device \in Devices, loc \in Locations :
          LoginBegin(p, u, device, loc)
    \/ \E p \in Procs : ShouldBlockLogin(p)
    \/ \E p \in Procs : RecordLock(p)
    \/ \E p \in Procs : RecordEntry(p)
    \/ \E p \in Procs : RecordPush(p)
    \/ \E p \in Procs : RecordReturn(p)
    \/ Tick

Spec == Init /\ [][Next]_vars

\* ---------------------------------------------------------------- the engine alone
RECURSIVE Histories(_)
Histories(n) ==
    IF n = 0 THEN {<<>>}
    ELSE LET shorter == Histories(n - 1)
         IN  shorter \cup {Append(h, r) : h \in {g \in shorter : Len(g) = n - 1},
                                          r \in LoginRecords}

\* The store holds one user's history of at most MaxHistLen records, or none.
InitAnalysis ==
    /\ InitLocals
    /\ config \in Configs
    /\ now = 0
    /\ login_history \in
         {<<>>} \cup {[u \in {"u1"} |-> h] : h \in Histories(MaxHistLen)}

\* As AnalyzeCall, reading the history through entry().or_insert_with(Vec::new),
\* which creates the user's entry.
AnalyzeCall_inserting(p, u, login_info) ==
    /\ pc[p] = "idle"
    /\ MutexFree(mutex)
    /\ pc' = [pc EXCEPT ![p] = "done"]
    /\ user' = [user EXCEPT ![p] = u]
    /\ login_record' = [login_record EXCEPT ![p] = Some(login_info)]
    /\ risk_analysis' = [risk_analysis EXCEPT ![p] =
                            Some(analyze_login_risk(login_history, u, login_info))]
    /\ login_history' = or_insert_with(login_history, u)
    /\ UNCHANGED <<fail_call, par_done, failed_attempts, client, config, now, mutex, push_len,
                   response, returned, started>>

\* One call of analyze_login_risk: lock, analyze, unlock on return.
AnalyzeCall(p, u, login_info) ==
    /\ pc[p] = "idle"
    /\ MutexFree(mutex)
    /\ pc' = [pc EXCEPT ![p] = "done"]
    /\ user' = [user EXCEPT ![p] = u]
    /\ login_record' = [login_record EXCEPT ![p] = Some(login_info)]
    /\ risk_analysis' = [risk_analysis EXCEPT ![p] =
                            Some(analyze_login_risk(login_history, u, login_info))]
    /\ UNCHANGED <<fail_call, par_done, failed_attempts, client, config, now, login_history, mutex, push_len, response,
                   returned, started>>

NextAnalysis ==
    \E login_info \in LoginRecords :
        /\ login_info.success
        /\ AnalyzeCall("p1", "u1", login_info)

SpecAnalysis == InitAnalysis /\ [][NextAnalysis]_vars

\* ---------------------------------------------------------------- the parallel analysis
\* The four analyzers of the optimized analyze_login_risk: each returns
\* Option<RiskFactor>.
check_new_device(history, login_info) ==
    IF ~known_device(history, login_info)
    THEN Some(RiskFactor("new_device", "Login from a new device", RISK_WEIGHT_NEW_DEVICE))
    ELSE None

check_new_location(history, login_info) ==
    IF new_location(history, login_info)
    THEN Some(RiskFactor("new_location", "Login from a new location",
                         RISK_WEIGHT_NEW_LOCATION))
    ELSE None

check_impossible_travel(history, login_info) ==
    IF impossible_travel(history, login_info)
    THEN Some(RiskFactor("impossible_travel", "Impossible travel detected",
                         RISK_WEIGHT_IMPOSSIBLE_TRAVEL))
    ELSE None

check_odd_time(history, login_info) ==
    IF odd_time(history, login_info)
    THEN Some(RiskFactor("odd_time", "Login at unusual time", RISK_WEIGHT_ODD_TIME))
    ELSE None

\* let analyzers = vec![...]: the results of the boxed closures, by index.
analyzers(history, login_info) ==
    <<check_new_device(history, login_info),
      check_new_location(history, login_info),
      check_impossible_travel(history, login_info),
      check_odd_time(history, login_info)>>

\* As collect, keeping the items in the order the analyzers finished.
RECURSIVE collect_by_completion(_, _)
collect_by_completion(done, n) ==
    IF done = <<>> THEN <<>>
    ELSE Head(done).factor \o collect_by_completion(Tail(done), n)

\* par_iter().filter_map(..).collect(): the items that are Some, in the order
\* of the analyzers vector whatever the order the closures finished in.
RECURSIVE collect(_, _)
collect(done, n) ==
    IF n = 0 THEN <<>>
    ELSE LET i == CHOOSE j \in DOMAIN done : done[j].analyzer = n
         IN  collect(done, n - 1) \o done[i].factor

\* risk_factors.iter().map(|f| f.weight).sum()
RECURSIVE weight_sum(_)
weight_sum(factors) ==
    IF factors = <<>> THEN 0 ELSE Head(factors).weight + weight_sum(Tail(factors))

\* The optimized analyze_login_risk up to the point the closures start: the
\* history is cloned, or the call returns at once when there is none.
ParBegin(p, u, login_info) ==
    /\ pc[p] = "idle"
    /\ user' = [user EXCEPT ![p] = u]
    /\ login_record' = [login_record EXCEPT ![p] = Some(login_info)]
    /\ par_done' = <<>>
    /\ IF history_of(u) /= <<>>
         THEN /\ pc' = [pc EXCEPT ![p] = "par"]
              /\ UNCHANGED risk_analysis
         ELSE /\ pc' = [pc EXCEPT ![p] = "done"]
              /\ risk_analysis' = [risk_analysis EXCEPT ![p] =
                                      Some([score |-> 0, factors |-> <<>>,
                                            action |-> "Allow"])]
    /\ UNCHANGED <<fail_call, failed_attempts, client, config, now, login_history, mutex, push_len,
                   response, returned, started>>

\* One closure runs to its end on some worker thread.
ParRun(p, k) ==
    /\ pc[p] = "par"
    /\ k \in DOMAIN analyzers(history_of(user[p]), login_record[p][1])
    /\ \A i \in DOMAIN par_done : par_done[i].analyzer /= k
    /\ par_done' = Append(par_done,
                          [analyzer |-> k,
                           factor |-> analyzers(history_of(user[p]), login_record[p][1])[k]])
    /\ UNCHANGED <<fail_call, failed_attempts, client, config, now, login_history, mutex, pc, user,
                   login_record, push_len, risk_analysis, response, returned, started>>

\* All closures have finished: collect, sum, score, action, return.
ParCollect(p) ==
    /\ pc[p] = "par"
    /\ Len(par_done) = Len(analyzers(history_of(user[p]), login_record[p][1]))
    /\ LET factors == collect(par_done, Len(par_done))
           score == Min(100, weight_sum(factors))
       IN  risk_analysis' = [risk_analysis EXCEPT ![p] =
                               Some([score |-> score, factors |-> factors,
                                     action |-> action_of(score)])]
    /\ pc' = [pc EXCEPT ![p] = "done"]
    /\ UNCHANGED <<fail_call, par_done, failed_attempts, client, config, now, login_history, mutex,
                   user, login_record, push_len, response, returned, started>>

\* The store holds one user's history of fewer than MaxHistLen records, or none.
InitParallel ==
    /\ InitLocals
    /\ config = DefaultConfig
    /\ now = 0
    /\ login_history \in
         {<<>>} \cup {[u \in {"u1"} |-> h] : h \in Histories(MaxHistLen - 1)}

\* The attempt carries the latest time, as the route stamps it with Utc::now().
NextParallel ==
    \/ \E login_info \in LoginRecords :
          /\ login_info.success
          /\ login_info.timestamp = MaxTime
          /\ ParBegin("p1", "u1", login_info)
    \/ \E k \in 1..4 : ParRun("p1", k)
    \/ ParCollect("p1")

SpecParallel == InitParallel /\ [][NextParallel]_vars

\* ---------------------------------------------------------------- the engine on any LoginRecord
\* The records a caller can build: device_id is a String, which may be empty,
\* and timestamp a DateTime<Utc>, which may lie before the epoch.
InputRecords ==
    [timestamp : {-1} \cup Times, location : Locations, device_id : Devices \cup {""},
     success : {TRUE}]

InitInput ==
    /\ InitLocals
    /\ config = DefaultConfig
    /\ now = 0
    /\ login_history \in
         {<<>>} \cup {[u \in {"u1"} |-> h] : h \in Histories(MaxHistLen - 1)}

NextInput == \E login_info \in InputRecords : AnalyzeCall("p1", "u1", login_info)

SpecInput == InitInput /\ [][NextInput]_vars

\* ---------------------------------------------------------------- the integrating client
\* The two login flows of the integration guide.
Flows == {"setupAuthFlow", "handleRiskScore"}

\* The results the engine can return for a first or second login.
ServerResults ==
    {analyze_login_risk(m, "u1", r) :
        m \in {<<>>} \cup {[u \in {"u1"} |-> h] : h \in Histories(MaxHistLen - 1)},
        r \in LoginRecords}

\* What POST /api/auth/login can come to: no answer, an error status, or a
\* LoginResponse whose risk_analysis is an Option (a blocked login is answered
\* 403, so a LoginResponse never carries Block).
ServerOutcomes ==
    {[kind |-> "unreachable"], [kind |-> "error", code |-> "LOGIN_BLOCKED"],
     [kind |-> "error", code |-> "INTERNAL_ERROR"]}
    \cup {[kind |-> "ok", access_token |-> "t", user |-> u, risk_analysis |-> ra] :
            u \in Users,
            ra \in {None} \cup {Some(r) : r \in {s \in ServerResults : s.action /= "Block"}}}

\* The form is submitted and the request gets its outcome.
ClientSubmit(flow, outcome) ==
    /\ client.step = "form"
    /\ client' = [client EXCEPT !.flow = flow, !.step = "login", !.response = Some(outcome)]
    /\ UNCHANGED <<fail_call, par_done, failed_attempts, config, now, login_history, mutex, pc, user,
                   login_record, push_len, risk_analysis, response, returned, started>>

\* AuthService.login: apiClient.post throws on no answer and on an error
\* status (the flow's catch shows the error); otherwise the token is set at
\* once and the response returned.
ClientLogin ==
    /\ client.step = "login"
    /\ IF client.response[1].kind = "ok"
         THEN client' = [client EXCEPT !.step = "risk",
                                       !.authToken = Some(client.response[1].access_token)]
         ELSE client' = [client EXCEPT !.step = "error"]
    /\ UNCHANGED <<fail_call, par_done, failed_attempts, config, now, login_history, mutex, pc, user,
                   login_record, push_len, risk_analysis, response, returned, started>>

\* The risk check of the flow: setupAuthFlow's `if (loginResponse.risk_analysis
\* && action !== 'Allow')`, or handleRiskScore's `if (loginResponse.risk_analysis)`
\* followed by `return true`.
ClientRisk ==
    /\ client.step = "risk"
    /\ LET ra == client.response[1].risk_analysis
       IN  IF client.flow = "setupAuthFlow"
           THEN IF ra /= None /\ ra[1].action /= "Allow"
                THEN IF ra[1].action = "Block"
                     THEN client' = [client EXCEPT !.step = "error"]
                     ELSE client' = [client EXCEPT !.step = "mfa"]
                ELSE client' = [client EXCEPT !.step = "breach"]
           ELSE IF ra /= None /\ ra[1].action = "Block"
                THEN client' = [client EXCEPT !.step = "denied"]
                ELSE IF ra /= None /\ ra[1].action = "RequireMfa"
                     THEN client' = [client EXCEPT !.step = "mfa"]
                     ELSE client' = [client EXCEPT !.step = "proceed"]
    /\ UNCHANGED <<fail_call, par_done, failed_attempts, config, now, login_history, mutex, pc, user,
                   login_record, push_len, risk_analysis, response, returned, started>>

\* setupAuthFlow after the risk check: the breach status, then the dashboard.
ClientBreach(breached) ==
    /\ client.step = "breach"
    /\ IF breached
         THEN client' = [client EXCEPT !.step = "password_reset"]
         ELSE client' = [client EXCEPT !.step = "dashboard",
                                       !.authToken = Some(client.response[1].access_token)]
    /\ UNCHANGED <<fail_call, par_done, failed_attempts, config, now, login_history, mutex, pc, user,
                   login_record, push_len, risk_analysis, response, returned, started>>

InitClient ==
    /\ InitLocals
    /\ config = DefaultConfig
    /\ now = 0
    /\ login_history = <<>>

NextClient ==
    \/ \E flow \in Flows, outcome \in ServerOutcomes : ClientSubmit(flow, outcome)
    \/ ClientLogin
    \/ ClientRisk
    \/ \E breached \in BOOLEAN : ClientBreach(breached)

SpecClient == InitClient /\ [][NextClient]_vars

\* ---------------------------------------------------------------- ApiClient
\* The requests one ApiClient can issue; a login's access token is named
\* after the request that obtained it.
RequestIds == {"r1", "r2", "r3"}

\* this.client.post / get: the request interceptor gives the request the token
\* stored at this moment, if any, as its Authorization header; there is no
\* response yet. kind "login" is AuthService.login's post, "get" any other call.
ApiRequest(id, kind) ==
    /\ id \notin client.used
    /\ client' = [client EXCEPT
          !.used = @ \cup {id},
          !.requests = @ \cup {[id |-> id, kind |-> kind,
                                authorization |-> client.authToken,
                                status |-> None]}]
    /\ UNCHANGED <<config, now, login_history, mutex, pc, user, login_record, push_len,
                   risk_analysis, response, returned, started, par_done, failed_attempts,
                   fail_call>>

\* The server answers a request: 200 or 401.
ApiAnswer(r, status) ==
    /\ r \in client.requests
    /\ r.status = None
    /\ client' = [client EXCEPT
          !.requests = (@ \ {r}) \cup {[r EXCEPT !.status = Some(status)]}]
    /\ UNCHANGED <<config, now, login_history, mutex, pc, user, login_record, push_len,
                   risk_analysis, response, returned, started, par_done, failed_attempts,
                   fail_call>>

\* The response reaches the client: handleApiError clears the token on 401;
\* AuthService.login calls setAuthToken(response.access_token) on success.
ApiReceive(r) ==
    /\ r \in client.requests
    /\ r.status /= None
    /\ client' = [client EXCEPT
          !.requests = @ \ {r},
          !.authToken = IF r.status = Some(401) THEN None
                        ELSE IF r.kind = "login" THEN Some(r.id)
                        ELSE @]
    /\ UNCHANGED <<config, now, login_history, mutex, pc, user, login_record, push_len,
                   risk_analysis, response, returned, started, par_done, failed_attempts,
                   fail_call>>

\* AuthService.logout: apiClient.clearAuthToken().
ApiLogout ==
    /\ client.authToken /= None
    /\ client' = [client EXCEPT !.authToken = None]
    /\ UNCHANGED <<config, now, login_history, mutex, pc, user, login_record, push_len,
                   risk_analysis, response, returned, started, par_done, failed_attempts,
                   fail_call>>

InitApi ==
    /\ InitLocals
    /\ config = DefaultConfig
    /\ now = 0
    /\ login_history = <<>>

NextApi ==
    \/ \E id \in RequestIds, kind \in {"login", "get"} : ApiRequest(id, kind)
    \/ \E r \in client.requests, status \in {200, 401} : ApiAnswer(r, status)
    \/ \E r \in client.requests : ApiReceive(r)
    \/ ApiLogout

SpecApi == InitApi /\ [][NextApi]_vars

\* ---------------------------------------------------------------- the failed-attempt counter
\* The count above which an identity has failed excessively.
FailureThreshold == 1

\* state.failed_attempts.get(username_or_email).map(|f| f.count).unwrap_or(0)
get_failed_attempts(map, username_or_email) ==
    IF username_or_email \in DOMAIN map THEN map[username_or_email].count ELSE 0

\* record_failed_attempt: under the write lock, the identity's count goes up
\* by one (from 0 when the identity has no entry).
RecordFailedAttempt(username_or_email) ==
    /\ MutexFree(mutex)
    /\ get_failed_attempts(failed_attempts, username_or_email) < MaxFailures
    /\ failed_attempts' =
          [k \in DOMAIN failed_attempts \cup {username_or_email} |->
              IF k = username_or_email
                THEN [count |-> get_failed_attempts(failed_attempts, k) + 1]
                ELSE failed_attempts[k]]
    /\ UNCHANGED <<fail_call, par_done, client, config, now, login_history, mutex, pc, user,
                   login_record, push_len, risk_analysis, response, returned, started>>

\* ---- record_failed_attempt and get_failed_attempts, step by step
\* A caller asks for the write lock of record_failed_attempt.
RecordFailedCall(p, username_or_email) ==
    /\ pc[p] = "idle"
    /\ get_failed_attempts(failed_attempts, username_or_email)
         + Cardinality({q \in Procs : fail_call.key[q] = Some(username_or_email)})
           < MaxFailures
    /\ pc' = [pc EXCEPT ![p] = "fa_lock"]
    /\ fail_call' = [fail_call EXCEPT !.key[p] = Some(username_or_email),
                                      !.result[p] = None]
    /\ UNCHANGED <<config, now, login_history, mutex, user, login_record, push_len,
                   risk_analysis, response, returned, started, par_done, failed_attempts,
                   client>>

\* As RecordFailedLock, taking the lock shared: self.state.read().
RecordFailedLock_shared(p) ==
    /\ pc[p] = "fa_lock"
    /\ pc' = [pc EXCEPT ![p] = "fa_read"]
    /\ UNCHANGED <<config, now, login_history, mutex, user, login_record, push_len,
                   risk_analysis, response, returned, started, par_done, failed_attempts,
                   client, fail_call>>

\* let mut state = self.state.write().unwrap(): granted when no one holds the lock.
RecordFailedLock(p) ==
    /\ pc[p] = "fa_lock"
    /\ MutexFree(mutex)
    /\ mutex' = Some(p)
    /\ pc' = [pc EXCEPT ![p] = "fa_read"]
    /\ UNCHANGED <<config, now, login_history, user, login_record, push_len,
                   risk_analysis, response, returned, started, par_done, failed_attempts,
                   client, fail_call>>

\* The identity's count is read (0 when it has no entry).
RecordFailedRead(p) ==
    /\ pc[p] = "fa_read"
    /\ fail_call' = [fail_call EXCEPT !.count[p] =
                        get_failed_attempts(failed_attempts, fail_call.key[p][1])]
    /\ pc' = [pc EXCEPT ![p] = "fa_write"]
    /\ UNCHANGED <<config, now, login_history, mutex, user, login_record, push_len,
                   risk_analysis, response, returned, started, par_done, failed_attempts,
                   client>>

\* The count read plus one is stored.
RecordFailedWrite(p) ==
    /\ pc[p] = "fa_write"
    /\ LET k == fail_call.key[p][1]
       IN  /\ failed_attempts' =
                 [i \in DOMAIN failed_attempts \cup {k} |->
                     IF i = k THEN [count |-> fail_call.count[p] + 1]
                     ELSE failed_attempts[i]]
           /\ fail_call' = [fail_call EXCEPT !.written[k] = @ + 1]
    /\ pc' = [pc EXCEPT ![p] = "fa_return"]
    /\ UNCHANGED <<config, now, login_history, mutex, user, login_record, push_len,
                   risk_analysis, response, returned, started, par_done, client>>

\* record_failed_attempt returns, which drops the guard.
RecordFailedReturn(p) ==
    /\ pc[p] = "fa_return"
    /\ mutex' = IF mutex = Some(p) THEN None ELSE mutex
    /\ fail_call' = [fail_call EXCEPT !.key[p] = None, !.count[p] = 0]
    /\ pc' = [pc EXCEPT ![p] = "idle"]
    /\ UNCHANGED <<config, now, login_history, user, login_record, push_len,
                   risk_analysis, response, returned, started, par_done, failed_attempts,
                   client>>

\* get_failed_attempts: under the read lock, which no writer may hold.
GetFailedAttempts(p, username_or_email) ==
    /\ pc[p] = "idle"
    /\ MutexFree(mutex)
    /\ fail_call' = [fail_call EXCEPT !.result[p] =
                        Some([key |-> username_or_email,
                              count |-> get_failed_attempts(failed_attempts,
                                                            username_or_email)])]
    /\ UNCHANGED <<config, now, login_history, mutex, pc, user, login_record, push_len,
                   risk_analysis, response, returned, started, par_done, failed_attempts,
                   client>>

InitCounter ==
    /\ InitLocals
    /\ config = DefaultConfig
    /\ now = 0
    /\ login_history = <<>>

NextCounter ==
    \/ \E p \in Procs, k \in Users : RecordFailedCall(p, k)
    \/ \E p \in Procs : RecordFailedLock(p)
    \/ \E p \in Procs : RecordFailedRead(p)
    \/ \E p \in Procs : RecordFailedWrite(p)
    \/ \E p \in Procs : RecordFailedReturn(p)
    \/ \E p \in Procs, k \in Users : GetFailedAttempts(p, k)

SpecCounter == InitCounter /\ [][NextCounter]_vars

InitFailures ==
    /\ InitLocals
    /\ config = DefaultConfig
    /\ now = 0
    /\ login_history \in
         {<<>>} \cup {[u \in {"u1"} |-> h] : h \in Histories(MaxHistLen - 1)}

NextFailures ==
    \/ \E u \in Users : RecordFailedAttempt(u)
    \/ \E login_info \in LoginRecords :
          /\ login_info.success
          /\ AnalyzeCall("p1", "u1", login_info)

SpecFailures == InitFailures /\ [][NextFailures]_vars

\* ---------------------------------------------------------------- two analyses side by side
\* Two callers analyze one attempt each against the same store.
InitPair ==
    /\ InitLocals
    /\ config \in Configs
    /\ now = 0
    /\ login_history \in
         {<<>>} \cup {[u \in {"u1"} |-> h] : h \in Histories(MaxHistLen - 1)}

\* Both attempts carry the latest time.
NextPair ==
    \E p \in Procs, login_info \in LoginRecords :
        /\ login_info.success
        /\ login_info.timestamp = MaxTime
        /\ AnalyzeCall(p, "u1", login_info)

SpecPair == InitPair /\ [][NextPair]_vars

\* ---------------------------------------------------------------- the engine over two days
\* Timestamps on both sides of midnight: the first hour, the last hour of the
\* first day and the first hour of the second day.
DayTimes == {0, HoursPerDay - 1, HoursPerDay}

DayRecords ==
    [timestamp : DayTimes, location : Locations, device_id : Devices, success : BOOLEAN]

RECURSIVE HistoriesOver(_, _)
HistoriesOver(records, n) ==
    IF n = 0 THEN {<<>>}
    ELSE LET shorter == HistoriesOver(records, n - 1)
         IN  shorter \cup {Append(h, r) : h \in {g \in shorter : Len(g) = n - 1},
                                          r \in records}

InitDay ==
    /\ InitLocals
    /\ config = DefaultConfig
    /\ now = 0
    /\ login_history \in
         {<<>>} \cup {[u \in {"u1"} |-> h] : h \in HistoriesOver(DayRecords, MaxHistLen)}

NextDay ==
    \E login_info \in DayRecords :
        /\ login_info.success
        /\ AnalyzeCall("p1", "u1", login_info)

SpecDay == InitDay /\ [][NextDay]_vars

\* ---------------------------------------------------------------- the login route on a user with a past
\* Successful logins of the hour before the clock starts.
PastRecords ==
    [timestamp : {-1}, location : Locations, device_id : Devices, success : {TRUE}]

InitRetry ==
    /\ InitLocals
    /\ config = DefaultConfig
    /\ now = 0
    /\ login_history \in
         {<<>>} \cup {[u \in {"u1"} |-> h] : h \in HistoriesOver(PastRecords, MaxHistLen - 1)}

\* One handler serves the logins of u1 one after the other.
NextRetry ==
    \/ \E device \in Devices, loc \in Locations : LoginBegin("p1", "u1", device, loc)
    \/ ShouldBlockLogin("p1")
    \/ RecordLock("p1")
    \/ RecordEntry("p1")
    \/ RecordPush("p1")
    \/ RecordReturn("p1")
    \/ Tick

SpecRetry == InitRetry /\ [][NextRetry]_vars

\* ---------------------------------------------------------------- the engine around 50 km
\* Locations on both sides of the 50 km limit: 49 km and 50 km from the first.
NearPositions == {0, 49, 50}

NearRecords ==
    [timestamp : Times, location : {None} \cup {Some(x) : x \in NearPositions},
     device_id : Devices, success : {TRUE}]

InitNear ==
    /\ InitLocals
    /\ config = DefaultConfig
    /\ now = 0
    /\ login_history \in
         {<<>>} \cup {[u \in {"u1"} |-> h] : h \in HistoriesOver(NearRecords, MaxHistLen - 1)}

NextNear == \E login_info \in NearRecords : AnalyzeCall("p1", "u1", login_info)

SpecNear == InitNear /\ [][NextNear]_vars

\* ---------------------------------------------------------------- properties
Count(seq, r) == Cardinality({i \in DOMAIN seq : seq[i] = r})

RECURSIVE SumWeights(_)
SumWeights(factors) ==
    IF factors = <<>> THEN 0 ELSE Head(factors).weight + SumWeights(Tail(factors))

Range(seq) == {seq[i] : i \in DOMAIN seq}

IsPrefix(s, t) == Len(s) <= Len(t) /\ SubSeq(t, 1, Len(s)) = s

\* The handlers whose analyze_login_risk call has returned.
Analyzed == {p \in Procs : risk_analysis[p] /= None}
result(p) == risk_analysis[p][1]

\* The handlers inside record_login's critical section, and those of them
\* whose record is already pushed.
Writing == {p \in Procs : pc[p] \in {"entry", "push", "unlock"}}
Pushed(u, r) == {p \in Procs : pc[p] = "unlock" /\ user[p] = u /\ login_record[p] = Some(r)}

\* C1: a user whose history is empty or absent gets score 0, no factors and
\* Allow, whatever the attempt.
ColdStart ==
    \A p \in Analyzed :
        history_of(user[p]) = <<>> =>
            result(p) = [score |-> 0, factors |-> <<>>, action |-> "Allow"]

ColdStartWitness ==
    \E p \in Analyzed :
        /\ pc[p] = "done"
        /\ user[p] \in DOMAIN login_history
        /\ login_history[user[p]] = <<>>
        /\ result(p).action = "Allow"

\* C2: a user with MFA enabled is never answered with the action Allow.
PolicyFloor ==
    \A p \in Procs :
        (/\ response[p] /= None
         /\ mfa_enabled(response[p][1].user)
         /\ response[p][1].risk_analysis /= None)
            => response[p][1].risk_analysis[1].action /= "Allow"

\* C3: every record_login call adds exactly one record to its user's history:
\* the history holds as many records as calls have pushed, under every interleaving.
NoLostWrites ==
    \A u \in Users :
        Len(history_of(u)) =
            Len(returned[u]) + Cardinality({p \in Procs : pc[p] = "unlock" /\ user[p] = u})

\* Two handlers for one user, the one that began first recording last.
NoLostWritesWitness ==
    \E u \in Users :
        /\ Len(returned[u]) = 2
        /\ Len(history_of(u)) = 2
        /\ returned[u][1].timestamp > returned[u][2].timestamp
        /\ \A p \in Procs : pc[p] = "idle"

\* C4: the score of every analysis is between 0 and 100.
ScoreInRange ==
    \A p \in Analyzed : result(p).score >= 0 /\ result(p).score <= 100

ScoreInRangeWitness ==
    \E p \in Analyzed : result(p).score = 100 /\ SumWeights(result(p).factors) > 100

ActionMapping ==
    /\ RISK_THRESHOLD_MFA <= RISK_THRESHOLD_BLOCK
    /\ \A p \in Analyzed :
          LET s == result(p).score
              a == result(p).action
          IN  /\ s < RISK_THRESHOLD_MFA => a = "Allow"
              /\ (RISK_THRESHOLD_MFA <= s /\ s < RISK_THRESHOLD_BLOCK) => a = "RequireMfa"
              /\ s >= RISK_THRESHOLD_BLOCK => a = "Block"
              /\ (config = DefaultConfig /\ s = 20) => a = "Allow"
              /\ (config = DefaultConfig /\ s = 35) => a = "RequireMfa"

ActionMappingWitness ==
    \E p \in Analyzed :
        /\ RISK_THRESHOLD_MFA < RISK_THRESHOLD_BLOCK
        /\ result(p).score = RISK_THRESHOLD_BLOCK
        /\ result(p).action = "Block"

\* C7: a record whose record_login call has returned is in the history that
\* every later reader finds.
AppendVisible ==
    \A u \in Users :
        \A i \in DOMAIN returned[u] :
            Count(history_of(u), returned[u][i]) >= Count(returned[u], returned[u][i])

AppendVisibleWitness ==
    \E p \in Analyzed :
        /\ pc[p] = "record"
        /\ returned[user[p]] /= <<>>
        /\ result(p).factors /= <<>>

\* C8: every user's history is ordered by the timestamps of its records.
HistoryOrderedByTime ==
    \A u \in Users :
        \A i, j \in DOMAIN history_of(u) :
            i < j => history_of(u)[i].timestamp <= history_of(u)[j].timestamp

\* C9: the history holds every record exactly as often as it was appended, and
\* no analysis can read the history while a record_login call is writing it.
LinearizableAppends ==
    /\ \A u \in Users :
          \A r \in Range(history_of(u)) \cup Range(returned[u]) :
              Count(history_of(u), r) = Count(returned[u], r) + Cardinality(Pushed(u, r))
    /\ \A p \in Procs : (pc[p] = "should_block" /\ MutexFree(mutex)) => Writing = {}
    /\ \A p \in Writing : mutex = Some(p)

LinearizableAppendsWitness ==
    \E u \in Users :
        /\ Len(returned[u]) = 2
        /\ returned[u][1] /= returned[u][2]
        /\ \A p \in Procs : pc[p] = "idle" /\ response[p] /= None

\* C10: no step changes, removes or moves a record that is in a history: the
\* history before the step is a prefix of the history after it.
AppendOnly ==
    [][\A u \in DOMAIN login_history :
          /\ u \in DOMAIN login_history'
          /\ IsPrefix(login_history[u], login_history'[u])]_vars

AppendOnlyWitness ==
    \E p \in Procs :
        /\ pc[p] = "unlock"
        /\ Len(history_of(user[p])) = 2
        /\ history_of(user[p])[2] = login_record[p][1]

\* C11: two reads of a user's history with no append for that user between
\* them are equal: a step that pushes no record for a user leaves what a reader
\* of that user's history gets unchanged, also when it appends for another user.
SnapshotIdempotent ==
    [][\A u \in Users :
          (~\E p \in Procs : user[p] = u /\ pc[p] = "push" /\ pc'[p] = "unlock")
              => history_of(u)' = history_of(u)]_vars

SnapshotIdempotentWitness ==
    \E p \in Procs, u \in Users :
        /\ pc[p] = "unlock"
        /\ user[p] /= u
        /\ history_of(u) /= <<>>

\* What the claims say about a history h and an attempt a, in their own terms.
DeviceSeen(h, a) == a.device_id \in {h[i].device_id : i \in DOMAIN h}
NearSeen(h, a) ==
    /\ a.location /= None
    /\ \E i \in DOMAIN h :
          h[i].location /= None /\ Abs(h[i].location[1] - a.location[1]) < 50
HourSeen(h, a) ==
    \E i \in DOMAIN h : h[i].success /\ h[i].timestamp % 24 = a.timestamp % 24
\* The geolocated records than which no geolocated record is more recent.
MostRecentGeo(h) ==
    {i \in DOMAIN h :
        /\ h[i].location /= None
        /\ \A j \in DOMAIN h : h[j].location /= None => h[j].timestamp <= h[i].timestamp}
\* Record i implies a speed above 1000 km/h for attempt a.
Faster(h, i, a) ==
    /\ a.timestamp - h[i].timestamp > 0
    /\ Abs(h[i].location[1] - a.location[1]) > 1000 * (a.timestamp - h[i].timestamp)
FactorNames(p) == {result(p).factors[i].name : i \in DOMAIN result(p).factors}
attempt(p) == login_record[p][1]

\* C12 as claimed: a known device, a location within 50 km of a historical
\* one and a normal hour give no factor and Allow, for every history.
KnownContextAllowed ==
    \A p \in Analyzed :
        LET h == history_of(user[p])
            a == attempt(p)
        IN  (DeviceSeen(h, a) /\ NearSeen(h, a) /\ HourSeen(h, a))
                => result(p).factors = <<>> /\ result(p).action = "Allow"

\* C12 as amended: the same, provided no most recent geolocated record implies
\* a travel speed above 1000 km/h.
KnownContextAllowedUnlessTravel ==
    \A p \in Analyzed :
        LET h == history_of(user[p])
            a == attempt(p)
        IN  (/\ DeviceSeen(h, a) /\ NearSeen(h, a) /\ HourSeen(h, a)
             /\ \A i \in MostRecentGeo(h) : ~Faster(h, i, a))
                => result(p).factors = <<>> /\ result(p).action = "Allow"

KnownContextAllowedWitness ==
    \E p \in Analyzed :
        LET h == history_of(user[p])
            a == attempt(p)
        IN  /\ DeviceSeen(h, a) /\ NearSeen(h, a) /\ HourSeen(h, a)
            /\ \A i \in MostRecentGeo(h) : ~Faster(h, i, a)
            /\ \E i \in DOMAIN h :
                  h[i].location /= None /\ Abs(h[i].location[1] - a.location[1]) >= 50
            /\ \E i \in DOMAIN h : h[i].device_id /= a.device_id
            /\ result(p).factors = <<>>

\* C13: impossible_travel fires exactly when the attempt has a location and the
\* most recent geolocated record implies more than 1000 km/h; geolocated
\* records older than that one have no influence.
ImpossibleTravelByLatest ==
    \A p \in Analyzed :
        LET h == history_of(user[p])
            a == attempt(p)
            fires == "impossible_travel" \in FactorNames(p)
        IN  /\ fires => (a.location /= None /\ \E i \in MostRecentGeo(h) : Faster(h, i, a))
            /\ (/\ a.location /= None
                /\ MostRecentGeo(h) /= {}
                /\ \A i \in MostRecentGeo(h) : Faster(h, i, a)) => fires

\* It fires although an older geolocated record, taken alone, would not imply it.
ImpossibleTravelWitness ==
    \E p \in Analyzed :
        LET h == history_of(user[p])
            a == attempt(p)
        IN  /\ "impossible_travel" \in FactorNames(p)
            /\ \E i \in DOMAIN h :
                  /\ h[i].location /= None
                  /\ i \notin MostRecentGeo(h)
                  /\ ~Faster(h, i, a)

\* The fixed order of the factor names in a result.
FactorOrder ==
    <<"new_device", "new_location", "impossible_travel", "odd_time", "excessive_failures">>
Rank(name) == CHOOSE i \in DOMAIN FactorOrder : FactorOrder[i] = name

InFixedOrder(factors) ==
    \A i, j \in DOMAIN factors :
        i < j => Rank(factors[i].name) < Rank(factors[j].name)

\* C14: whatever the order in which the parallel analyzers finish, the result
\* is the one the sequential analysis returns for the same history and attempt,
\* and its factors are in the fixed order.
ParallelEqualsSequential ==
    \A p \in Procs :
        (pc[p] = "done" /\ risk_analysis[p] /= None)
            => /\ result(p) = analyze_login_risk(login_history, user[p], attempt(p))
               /\ InFixedOrder(result(p).factors)

\* Two factors fired and the analyzer of the later one finished first.
ParallelEqualsSequentialWitness ==
    \E p \in Procs :
        /\ pc[p] = "done"
        /\ risk_analysis[p] /= None
        /\ \E i, j \in DOMAIN par_done :
              /\ i < j
              /\ par_done[i].analyzer > par_done[j].analyzer
              /\ par_done[i].factor /= None
              /\ par_done[j].factor /= None

\* C15: in every analysis result each factor name occurs at most once.
FactorNamesUnique ==
    \A p \in Analyzed :
        \A i, j \in DOMAIN result(p).factors :
            result(p).factors[i].name = result(p).factors[j].name => i = j

\* All four checks fired in one result.
FactorNamesUniqueWitness ==
    \E p \in Analyzed :
        /\ Len(result(p).factors) = 4
        /\ FactorNames(p) = {"new_device", "new_location", "impossible_travel", "odd_time"}

\* C16: an attempt without a location never yields new_location or
\* impossible_travel, scores no higher than the same attempt with any location
\* supplied, and still gets the device and time checks.
MissingLocationNotPenalized ==
    \A p \in Analyzed :
        LET h == history_of(user[p])
            a == attempt(p)
        IN  a.location = None
                => /\ FactorNames(p) \cap {"new_location", "impossible_travel"} = {}
                   /\ \A loc \in Positions :
                         result(p).score <=
                             analyze_login_risk(login_history, user[p],
                                                [a EXCEPT !.location = Some(loc)]).score
                   /\ h /= <<>> =>
                         /\ "new_device" \in FactorNames(p) <=> ~DeviceSeen(h, a)
                         /\ "odd_time" \in FactorNames(p) <=> ~HourSeen(h, a)

\* An attempt without a location for which the device and time checks fired,
\* against a history holding geolocated records.
MissingLocationWitness ==
    \E p \in Analyzed :
        /\ attempt(p).location = None
        /\ MostRecentGeo(history_of(user[p])) /= {}
        /\ FactorNames(p) = {"new_device", "odd_time"}

\* An attempt with an empty device identifier or a negative timestamp.
Malformed(a) == a.device_id = "" \/ a.timestamp < 0

\* C17: a malformed attempt is rejected before any analyzer runs: no score or
\* action is produced for it.
MalformedRejected ==
    \A p \in Procs :
        (login_record[p] /= None /\ Malformed(attempt(p))) => risk_analysis[p] = None

\* C18: fail closed: the login never proceeds as allowed when the risk
\* analysis is missing, unreachable or errored.
FailClosed ==
    client.step \in {"dashboard", "proceed"}
        => /\ client.response[1].kind = "ok"
           /\ client.response[1].risk_analysis /= None

\* The records committed so far, and the requests accepted but not yet pushed.
Committed == UNION {{<<u, i>> : i \in DOMAIN history_of(u)} : u \in Users}
NotYetPushed == {p \in Procs : pc[p] \in {"should_block", "record", "entry", "push"}}

\* C19: every attempt the login flow analyzes is committed to the user's
\* history exactly once: a blocked attempt with success = false, answered
\* LOGIN_BLOCKED without tokens, any other attempt with success = true.
CommittedExactlyOnce ==
    /\ [](/\ Cardinality(Committed) + Cardinality(NotYetPushed) = started
          /\ \A u \in Users :
                Len(history_of(u)) =
                    Len(returned[u]) + Cardinality({p \in Procs : pc[p] = "unlock" /\ user[p] = u}))
    /\ [][\A p \in Procs, u \in Users :
            (pc[p] = "unlock" /\ pc'[p] = "idle" /\ user[p] = u)
                => LET r == login_record[p][1]
                       answer == response'[p][1]
                   IN  /\ r \in Range(history_of(u))
                       /\ Count(history_of(u)', r) = Count(history_of(u), r)
                       /\ r.success = ~block_login(p)
                       /\ block_login(p) => (answer.code = "LOGIN_BLOCKED" /\ ~answer.tokens)
                       /\ ~block_login(p) => answer.code = "OK"]_vars

\* A blocked attempt was answered LOGIN_BLOCKED and is in the history as a
\* failed login.
CommittedExactlyOnceWitness ==
    \E p \in Procs, u \in Users :
        /\ response[p] /= None
        /\ response[p][1].code = "LOGIN_BLOCKED"
        /\ response[p][1].user = u
        /\ returned[u] /= <<>>
        /\ ~returned[u][Len(returned[u])].success
        /\ returned[u][Len(returned[u])] \in Range(history_of(u))

\* C20: excessive_failures fires in the analysis of an attempt whenever the
\* failed-attempt counter of the attempt's identity exceeds the threshold.
ExcessiveFailuresFires ==
    [][\A p \in Procs, u \in Users :
          (/\ pc[p] = "idle"
           /\ pc'[p] = "done"
           /\ user'[p] = u
           /\ get_failed_attempts(failed_attempts, u) > FailureThreshold)
              => "excessive_failures" \in FactorNames(p)']_vars

\* Handler p needs the Mutex (for its analysis or its append) while a handler
\* of another user holds it.
BlockedByOtherUser(p) ==
    /\ pc[p] \in {"should_block", "record"}
    /\ \E q \in Procs : mutex = Some(q) /\ user[q] /= user[p]

\* C21: an append or analysis for one user never waits on an append or
\* analysis for a different user.
CrossUserIndependence == \A p \in Procs : ~BlockedByOtherUser(p)

\* C22: a call of analyze_login_risk leaves every user's login history and
\* every failed-attempt counter as they were.
AnalysisSideEffectFree ==
    [][\A p \in Procs :
          (pc[p] = "idle" /\ pc'[p] = "done")
              => /\ login_history' = login_history
                 /\ failed_attempts' = failed_attempts]_vars

\* An analysis has returned while a counter and a history exist.
AnalysisSideEffectFreeWitness ==
    \E p \in Analyzed :
        /\ pc[p] = "done"
        /\ failed_attempts /= <<>>
        /\ login_history /= <<>>

\* C23: new_device fires exactly when the history is non-empty and no record
\* of it, successful or failed, has the attempt's device_id.
NewDeviceExactly ==
    \A p \in Analyzed :
        LET h == history_of(user[p])
            a == attempt(p)
        IN  "new_device" \in FactorNames(p)
                <=> (h /= <<>> /\ \A i \in DOMAIN h : h[i].device_id /= a.device_id)

\* new_device fired against a history that holds a failed record.
NewDeviceExactlyWitness ==
    \E p \in Analyzed :
        /\ "new_device" \in FactorNames(p)
        /\ \E i \in DOMAIN history_of(user[p]) : ~history_of(user[p])[i].success

\* C24: new_location fires exactly when the history is non-empty, the attempt
\* has a location and no record has a location less than 50 km from it; so it
\* fires when no record of a non-empty history has a location.
NewLocationExactly ==
    \A p \in Analyzed :
        LET h == history_of(user[p])
            a == attempt(p)
        IN  /\ "new_location" \in FactorNames(p)
                  <=> (h /= <<>> /\ a.location /= None /\ ~NearSeen(h, a))
            /\ (h /= <<>> /\ a.location /= None /\ MostRecentGeo(h) = {})
                  => "new_location" \in FactorNames(p)

\* new_location fired against a non-empty history without any location.
NewLocationExactlyWitness ==
    \E p \in Analyzed :
        /\ "new_location" \in FactorNames(p)
        /\ history_of(user[p]) /= <<>>
        /\ MostRecentGeo(history_of(user[p])) = {}

\* The configured bound on the records retained per user: one less than the
\* appends a run can make.
RetentionCap == MaxLogins - 1

\* C25: the number of records retained for a user never exceeds the
\* configured bound.
RetentionCapped == \A u \in Users : Len(history_of(u)) <= RetentionCap

\* C26: get_failed_attempts returns 0 for an identity without a recorded
\* failure, and every record_failed_attempt call that wrote has raised its
\* identity's count by exactly one, whatever the interleaving.
FailedCounterExact ==
    /\ \A k \in Users :
          get_failed_attempts(failed_attempts, k) = fail_call.written[k]
    /\ \A p \in Procs :
          fail_call.result[p] /= None
              => /\ fail_call.result[p][1].count <= fail_call.written[fail_call.result[p][1].key]
                 /\ fail_call.written[fail_call.result[p][1].key] = 0
                       => fail_call.result[p][1].count = 0

\* Two calls for one identity overlapped: one has written and still holds the
\* lock, the other waits for it.
FailedCounterExactWitness ==
    \E p, q \in Procs :
        /\ pc[p] = "fa_return"
        /\ pc[q] = "fa_lock"
        /\ fail_call.key[p] = fail_call.key[q]
        /\ fail_call.written[fail_call.key[p][1]] = MaxFailures - 1

\* C27: impossible_travel never fires when the attempt is not later than the
\* most recent geolocated record, whatever the distance.
NoTravelWithoutElapsedTime ==
    \A p \in Analyzed :
        LET h == history_of(user[p])
            a == attempt(p)
        IN  (\E i \in MostRecentGeo(h) : a.timestamp <= h[i].timestamp)
                => "impossible_travel" \notin FactorNames(p)

\* The attempt is 1040 km from the most recent geolocated record and not
\* later than it.
NoTravelWithoutElapsedTimeWitness ==
    \E p \in Analyzed :
        LET h == history_of(user[p])
            a == attempt(p)
        IN  /\ a.location /= None
            /\ \E i \in MostRecentGeo(h) :
                  /\ a.timestamp <= h[i].timestamp
                  /\ Abs(h[i].location[1] - a.location[1]) > 1000

\* Allow < RequireMfa < Block.
ActionRank(action) ==
    CASE action = "Allow" -> 0
      [] action = "RequireMfa" -> 1
      [] action = "Block" -> 2

\* C28: of any two analysis results the one with the higher or equal score
\* never has the weaker action, and a result with more factors never has a
\* weaker action than one with fewer.
ActionMonotone ==
    \A p, q \in Analyzed :
        /\ result(p).score <= result(q).score
              => ActionRank(result(p).action) <= ActionRank(result(q).action)
        /\ FactorNames(p) \subseteq FactorNames(q)
              => ActionRank(result(p).action) <= ActionRank(result(q).action)

\* Two results: one more factor, a higher score and a stronger action.
ActionMonotoneWitness ==
    \E p, q \in Analyzed :
        /\ FactorNames(p) \subseteq FactorNames(q)
        /\ Cardinality(FactorNames(q)) = Cardinality(FactorNames(p)) + 1
        /\ result(p).score < result(q).score
        /\ ActionRank(result(p).action) < ActionRank(result(q).action)

\* The records of h that a blocked attempt left: same device and location as
\* attempt a, earlier, and failed.
BlockedBefore(h, a) ==
    {i \in DOMAIN h :
        /\ ~h[i].success
        /\ h[i].device_id = a.device_id
        /\ h[i].location = a.location
        /\ h[i].timestamp < a.timestamp}

\* C29: after an attempt was blocked and committed as a failed record, an
\* identical later attempt is blocked again (score and action no weaker).
BlockedRetryStaysBlocked ==
    \A p \in Procs :
        (pc[p] = "record" /\ BlockedBefore(history_of(user[p]), attempt(p)) /= {})
            => /\ result(p).score >= RISK_THRESHOLD_BLOCK
               /\ result(p).action = "Block"

\* C30: a 401 response to a request that was sent before a newer token was
\* set does not clear the newer token.
StaleUnauthorizedKeepsToken ==
    [][\A r \in client.requests :
          (/\ r.status = Some(401)
           /\ r \notin client'.requests
           /\ client.authToken /= None
           /\ r.authorization /= client.authToken)
              => client'.authToken = client.authToken]_vars

====
